---- MODULE Spec2Model ----
(***************************************************************************)
(* Model of identity-engine/embedded-sign-in-widget/main.go: the handlers  *)
(* of the embedded sign-in widget sample (/, /login, /login/callback,      *)
(* /logout, /profile), the cookie session they read and write, the process *)
(* wide pkce pointer, and the identity provider's endpoints as inputs.     *)
(*                                                                         *)
(* The session lives in the browser's signed cookie (sessions.CookieStore):*)
(* a handler reads it with sessionStore.Get, changes session.Values and    *)
(* session.Save puts a Set-Cookie header on the response.  The browser     *)
(* gets the new cookie only if that header is part of the headers that are *)
(* actually sent: net/http fixes the headers at the first WriteHeader or   *)
(* Write, and a process exit or a handler panic sends nothing.             *)
(***************************************************************************)
EXTENDS Integers, Sequences, FiniteSets, TLC

VARIABLES running, cookie, pkce, last, boot, reqs

vars == <<running, cookie, pkce, last, boot, reqs>>

(***************************************************************************)
(* Bounds                                                                  *)
(***************************************************************************)
\* number of browsers (cookie jars) talking to the process
NumBrowsers == 1
\* number of distinct outcomes of rand.Read in createCodeVerifier
NumVerifiers == 2

Browsers == 1..NumBrowsers

\* the goroutines serving GET /login: two requests in flight at the same time
Requests == {"r1", "r2"}

VerifierPool == <<"verifierA", "verifierB", "verifierC", "verifierD">>

\* the possible results of createCodeVerifier (base64url of 86 random bytes)
CodeVerifiers == {VerifierPool[i] : i \in 1..NumVerifiers}

(***************************************************************************)
(* Package-level values and configuration                                  *)
(***************************************************************************)
state == "ApplicationState"

ClientID == "clientId0"

ClientSecret == "clientSecret0"

Issuer == "https://issuer.example/oauth2/default"

\* *PKCE nil pointer, and the pointer to a PKCE struct
NilPKCE == [isNil |-> TRUE, CodeVerifier |-> "", CodeChallenge |-> "",
            CodeChallengeMethod |-> ""]

(***************************************************************************)
(* createPKCEData: the challenge is base64url-no-pad(sha256(verifier)),    *)
(* kept as a symbolic term over the verifier.                              *)
(***************************************************************************)
Sha256(v) == "sha256(" \o v \o ")"

RawURLEncode(v) == "b64url(" \o v \o ")"

CodeChallengeOf(v) == RawURLEncode(Sha256(v))

\* createCodeVerifier: 86 random bytes, encoded with base64.RawURLEncoding
VerifierBytes == 86

\* base64.RawURLEncoding.EncodedLen(n): no padding
RawURLEncodedLen(n) == (n \div 3) * 4 + ((n % 3) * 8 + 5) \div 6

\* the length of the string createCodeVerifier returns
CodeVerifierLen == RawURLEncodedLen(VerifierBytes)

createPKCEData_plain(v) ==
    [isNil |-> FALSE, CodeVerifier |-> v, CodeChallenge |-> RawURLEncode(v),
     CodeChallengeMethod |-> "plain"]

createPKCEData(v) ==
    [isNil |-> FALSE, CodeVerifier |-> v, CodeChallenge |-> CodeChallengeOf(v),
     CodeChallengeMethod |-> "S256"]

(***************************************************************************)
(* session.Values: a map from keys to strings; an absent key reads as nil. *)
(***************************************************************************)
EmptySession == [k \in {} |-> ""]

IsNilOrEmpty(s, k) == k \notin DOMAIN s \/ s[k] = ""

SetValue(s, k, v) == [x \in DOMAIN s \cup {k} |-> IF x = k THEN v ELSE s[x]]

DeleteValue(s, k) == [x \in DOMAIN s \ {k} |-> s[x]]

\* sessionStore.Get: the decoded cookie of the request, or a new empty session
\* (and an error) when the request's cookie cannot be decoded.  garbled says
\* that the request carries an undecodable cookie instead of the browser's.
GetSession(b, garbled) == IF garbled THEN EmptySession ELSE cookie[b]

(***************************************************************************)
(* http.ResponseWriter.  hdr* is the header map the handler still edits;   *)
(* sent* is the copy fixed by the first WriteHeader.                       *)
(***************************************************************************)
NewResponse ==
    [wroteHeader |-> FALSE, status |-> 0, body |-> <<>>,
     hdrLocation |-> "", hdrCookieSet |-> FALSE, hdrCookie |-> EmptySession,
     sentLocation |-> "", sentCookieSet |-> FALSE, sentCookie |-> EmptySession]

WriteHeader(w, code) ==
    IF w.wroteHeader THEN w
    ELSE [w EXCEPT !.wroteHeader = TRUE, !.status = code,
                   !.sentLocation = w.hdrLocation,
                   !.sentCookieSet = w.hdrCookieSet,
                   !.sentCookie = w.hdrCookie]

Write(w, msg) == [WriteHeader(w, 200) EXCEPT !.body = Append(@, msg)]

\* fmt.Fprintln(w, msg)
Fprintln(w, msg) == Write(w, msg)

\* http.Error(w, msg, code)
HttpError(w, msg, code) == Write(WriteHeader(w, code), msg)

\* http.Redirect(w, r, url, 302); a GET request also gets a short HTML body
Redirect(w, method, url) ==
    LET w1 == WriteHeader([w EXCEPT !.hdrLocation = url], 302)
    IN  IF method = "GET" THEN [w1 EXCEPT !.body = Append(@, "<a href>Found</a>")]
        ELSE w1

\* session.Save(r, w) of a cookie store: Set-Cookie on the header map
SaveSession(w, s) == [w EXCEPT !.hdrCookieSet = TRUE, !.hdrCookie = s]

\* the handler returns: net/http sends the headers if nothing was written
Finish(w) == WriteHeader(w, 200)

\* os.Exit / log.Fatalf / a recovered handler panic: nothing reaches the browser
Aborted == NewResponse

\* the browser's cookie after it received response w
CookieAfter(b, w) == IF w.sentCookieSet THEN w.sentCookie ELSE cookie[b]

(***************************************************************************)
(* isAuthenticated                                                         *)
(***************************************************************************)
isAuthenticated(s, getErr) == ~(getErr \/ IsNilOrEmpty(s, "id_token"))

(***************************************************************************)
(* url.Values: a map from parameter names to the list of their values.     *)
(***************************************************************************)
NoValues == [k \in {} |-> <<>>]

QGet(q, k) == IF k \in DOMAIN q /\ Len(q[k]) > 0 THEN q[k][1] ELSE ""

QDel(q, k) == [x \in DOMAIN q \ {k} |-> q[x]]

QAdd(q, k, v) ==
    [x \in DOMAIN q \cup {k} |->
        IF x = k THEN (IF k \in DOMAIN q THEN Append(q[k], v) ELSE <<v>>)
        ELSE q[x]]

QSet(q, k, v) == [x \in DOMAIN q \cup {k} |-> IF x = k THEN <<v>> ELSE q[x]]

(***************************************************************************)
(* Inputs: what browsers send and what the identity provider answers.      *)
(***************************************************************************)
\* query strings of /login/callback requests
StateParams == {NoValues, QSet(NoValues, "state", state),
                QSet(NoValues, "state", "WrongState")}

CodeParams == {NoValues, QSet(NoValues, "interaction_code", "abc123")}

ExtraParams == {NoValues,
                QSet(QSet(NoValues, "code_verifier", "evilVerifier"),
                     "grant_type", "password")}

Merge(f, g) == [x \in DOMAIN f \cup DOMAIN g |-> IF x \in DOMAIN f THEN f[x] ELSE g[x]]

Queries == {Merge(a, Merge(c, e)) : a \in StateParams, c \in CodeParams, e \in ExtraParams}

\* id_token values a token response can carry; the provider's keys, issuer,
\* audience and expiry make the verifier accept exactly ValidIdTokens
IdTokens == {"", "IDT1", "IDT_badsig"}

ValidIdTokens == {"IDT1"}

AccessTokens == {"", "AT1"}

NoTokenResponse ==
    [outcome |-> "none", status |-> 0, error |-> "", id_token |-> "", access_token |-> ""]

\* what client.Do / ReadAll / json.Unmarshal see of the token endpoint; the
\* handler never reads resp.StatusCode, so the status is the one that goes
\* with the error field
TokenResponses ==
    {[NoTokenResponse EXCEPT !.outcome = o] :
        o \in {"transport_error", "read_error", "malformed_json"}}
    \cup
    {[outcome |-> "json", status |-> IF e = "" THEN 200 ELSE 400, error |-> e,
      id_token |-> i, access_token |-> a] :
        e \in {"", "invalid_grant"}, i \in IdTokens, a \in AccessTokens}

NoInteractResponse == [outcome |-> "none", handle |-> ""]

\* what getInteractionHandle sees of the interaction endpoint
InteractResponses ==
    {[NoInteractResponse EXCEPT !.outcome = o] :
        o \in {"transport_error", "read_error", "malformed_json"}}
    \cup {[outcome |-> "json", handle |-> h] : h \in {"", "handle1"}}

\* the possible results of generateNonce
Nonces == {"nonceA"}

NoProfile == [k \in {} |-> ""]

MaryProfile == [email |-> "mary@example.com", name |-> "Mary Smith"]

\* the JSON object of a user-info error response
ErrorProfile == [error |-> "invalid_token"]

NoUserInfoResponse == [outcome |-> "none", status |-> 0, attrs |-> NoProfile]

\* what getProfileData sees of the user-info endpoint for a bearer token: no
\* response, a body that is not JSON, or a JSON object with any status
UserInfoResponses ==
    {[NoUserInfoResponse EXCEPT !.outcome = "transport_error"]}
    \cup {[NoUserInfoResponse EXCEPT !.outcome = "malformed_json", !.status = st] :
            st \in {200, 401}}
    \cup {[outcome |-> "json", status |-> 200, attrs |-> m] : m \in {NoProfile, MaryProfile}}
    \cup {[outcome |-> "json", status |-> 401, attrs |-> ErrorProfile]}

(***************************************************************************)
(* verifyToken.  VerifyIdToken of the JWT verifier rejects the empty       *)
(* string and every token whose signature, issuer, audience or expiry is   *)
(* wrong; verifyToken returns an error exactly when VerifyIdToken does (a   *)
(* nil result with a nil error is an error as well).                       *)
(***************************************************************************)
VerifyIdToken(t) == t # "" /\ t \in ValidIdTokens

verifyToken_ignoresError(t) == TRUE

verifyToken(t) == VerifyIdToken(t)

(***************************************************************************)
(* The record of the last request handled (history, for the properties).   *)
(***************************************************************************)
NoRender == [shown |-> FALSE, IsAuthenticated |-> FALSE, State |-> "", Nonce |-> "",
             CodeChallenge |-> "", InteractionHandle |-> "", Profile |-> NoProfile]

NoLast ==
    [handler |-> "none", browser |-> 0, garbled |-> FALSE, before |-> EmptySession,
     query |-> NoValues,
     tokenReqSent |-> FALSE, tokenReq |-> NoValues, tokenResp |-> NoTokenResponse,
     verifyCalled |-> FALSE, verifyOk |-> FALSE, saveFailed |-> FALSE,
     interactSent |-> FALSE, interactChallenge |-> "",
     interactResp |-> NoInteractResponse, verifierLen |-> 0, codeFor |-> "",
     userinfoSent |-> FALSE, userinfoBearer |-> "", userinfoResp |-> NoUserInfoResponse,
     render |-> NoRender, exited |-> FALSE, panicked |-> FALSE, w |-> NewResponse]

\* a GET /login request in flight: its goroutine's position, its session and
\* response writer, and the challenge it sent and rendered
IdleRequest ==
    [pc |-> "idle", browser |-> 0, session |-> EmptySession, w |-> NewResponse,
     sentChallenge |-> "", renderedChallenge |-> ""]

(***************************************************************************)
(* Startup: init() reads the configuration with ReadConfig before main      *)
(* serves.  The config file (okta.yaml) and the OKTA_IDX_* environment      *)
(* variables are inputs; "" is a setting that is not given.                 *)
(***************************************************************************)
Settings == {"clientId", "clientSecret", "issuer", "scopes", "redirectUri"}

FileStatuses == {"absent", "ok", "unreadable", "mistyped"}

NoSettings == [k \in Settings |-> ""]

\* the config files: one that is found and parsed gives some of the settings
ConfigFiles ==
    {[status |-> st, values |-> NoSettings] : st \in FileStatuses \ {"ok"}}
    \cup {[status |-> "ok", values |-> f] : f \in [Settings -> {"", "fromFile"}]}

Environments == [Settings -> {"", "fromEnv"}]

\* fmt.Sprintf("%v", v.Get(KEY)): the environment value, "<nil>" when unset
SprintfGet(env, k) == IF env[k] = "" THEN "<nil>" ELSE env[k]

\* lines 440-477: err is the returned error, cfg the configuration left in c
ReadConfig(file, env) ==
    [err |-> file.status \in {"unreadable", "mistyped"},
     cfg |-> [k \in Settings |->
                IF file.values[k] # "" THEN file.values[k] ELSE SprintfGet(env, k)]]

\* lines 430-438: config.Validate, every setting is required
Validate(cfg) == \A k \in Settings : cfg[k] # ""

\* the configuration of the serving process of the request handlers
ServingConfig ==
    [clientId |-> ClientID, clientSecret |-> ClientSecret, issuer |-> Issuer,
     scopes |-> "openid", redirectUri |-> "http://localhost:8080/login/callback"]

Booted ==
    [phase |-> "serving", file |-> [status |-> "absent", values |-> NoSettings],
     env |-> ServingConfig, cfg |-> ServingConfig]

\* lines 60-69 and 71-97: init exits on an error of ReadConfig, else main serves
ProcessInit ==
    /\ boot.phase = "init"
    /\ LET rc == ReadConfig(boot.file, boot.env)
       IN  /\ boot' = [boot EXCEPT !.phase = IF rc.err THEN "exited" ELSE "serving",
                                   !.cfg = IF rc.err THEN NoSettings ELSE rc.cfg]
           /\ running' = ~rc.err
    /\ UNCHANGED <<cookie, pkce, last, reqs>>

InitStartup ==
    /\ running = FALSE
    /\ cookie = [b \in Browsers |-> EmptySession]
    /\ pkce = NilPKCE
    /\ last = NoLast
    /\ reqs = [r \in Requests |-> IdleRequest]
    /\ \E file \in ConfigFiles, env \in Environments :
          boot = [phase |-> "init", file |-> file, env |-> env, cfg |-> NoSettings]

NextStartup == ProcessInit

SpecStartup == InitStartup /\ [][NextStartup]_vars

Init ==
    /\ boot = Booted
    /\ reqs = [r \in Requests |-> IdleRequest]
    /\ running = TRUE
    /\ cookie = [b \in Browsers |-> EmptySession]
    /\ pkce = NilPKCE
    /\ last = NoLast

(***************************************************************************)
(* LoginHandler (GET /login)                                               *)
(***************************************************************************)
DecodeError == "securecookie: the value is not valid"

\* lines 207-209: the three PKCE session values of a PKCE struct
StorePKCE(s, p) ==
    SetValue(SetValue(SetValue(s, "pkce_code_verifier", p.CodeVerifier),
                      "pkce_code_challenge", p.CodeChallenge),
             "pkce_code_challenge_method", p.CodeChallengeMethod)

\* lines 212-214: copy the stored values into *pkce; a nil pkce or a failed
\* .(string) assertion panics after the assignments made so far
ReusePKCE(p, s) ==
    IF p.isNil \/ "pkce_code_verifier" \notin DOMAIN s
    THEN [panic |-> TRUE, pkce |-> p]
    ELSE LET p1 == [p EXCEPT !.CodeVerifier = s["pkce_code_verifier"]]
         IN  IF "pkce_code_challenge" \notin DOMAIN s
             THEN [panic |-> TRUE, pkce |-> p1]
             ELSE LET p2 == [p1 EXCEPT !.CodeChallenge = s["pkce_code_challenge"]]
                  IN  IF "pkce_code_challenge_method" \notin DOMAIN s
                      THEN [panic |-> TRUE, pkce |-> p2]
                      ELSE [panic |-> FALSE,
                            pkce |-> [p2 EXCEPT !.CodeChallengeMethod =
                                                   s["pkce_code_challenge_method"]]]

\* line 201: the handler creates PKCE data when the session has no "pkceData"
NeedsPKCE(s) == IsNilOrEmpty(s, "pkceData")

\* lines 503-538: the handle getInteractionHandle returns ("" with an error)
HandleOf(ir) == IF ir.outcome = "json" THEN ir.handle ELSE ""

LoginHandler(b, garbled, v, randOk, n, nonceOk, ir) ==
    LET s0     == GetSession(b, garbled)
        w0     == IF garbled THEN HttpError(NewResponse, DecodeError, 500) ELSE NewResponse
        create == NeedsPKCE(s0)
        reuse  == ReusePKCE(pkce, s0)
        p1     == IF create THEN (IF randOk THEN createPKCEData(v) ELSE NilPKCE)
                  ELSE reuse.pkce
        s1     == IF create THEN StorePKCE(s0, p1) ELSE s0
        w1     == IF create THEN SaveSession(w0, s1) ELSE w0
        data   == [shown |-> TRUE, IsAuthenticated |-> isAuthenticated(s1, garbled),
                   State |-> state, Nonce |-> n, CodeChallenge |-> p1.CodeChallenge,
                   InteractionHandle |-> HandleOf(ir), Profile |-> NoProfile]
        w2     == Finish(Write(w1, "login.gohtml"))
        base   == [NoLast EXCEPT !.handler = "Login", !.browser = b,
                                 !.garbled = garbled, !.before = cookie[b],
                                 !.verifierLen = IF create /\ randOk
                                                 THEN CodeVerifierLen ELSE 0]
        asked  == [base EXCEPT !.interactSent = TRUE,
                               !.interactChallenge = p1.CodeChallenge,
                               !.interactResp = ir]
    IN  IF create /\ ~randOk
        THEN [pkce |-> p1, last |-> [base EXCEPT !.exited = TRUE]]
        ELSE IF ~create /\ reuse.panic
        THEN [pkce |-> p1, last |-> [base EXCEPT !.panicked = TRUE]]
        ELSE IF ~nonceOk
        THEN [pkce |-> p1, last |-> [base EXCEPT !.exited = TRUE]]
        ELSE IF ir.outcome = "read_error"
        THEN [pkce |-> p1, last |-> [asked EXCEPT !.exited = TRUE]]
        ELSE [pkce |-> p1, last |-> [asked EXCEPT !.render = data, !.w = w2]]

\* the effect of a handled request on the process and on the browser
Serve(b, res) ==
    /\ last' = res.last
    /\ pkce' = res.pkce
    /\ running' = ~res.last.exited
    /\ cookie' = [cookie EXCEPT ![b] = CookieAfter(b, res.last.w)]
    /\ UNCHANGED <<boot, reqs>>

\* A request draws only the inputs its path through the handler consumes.
LoginRest(b, garbled, v, randOk) ==
    \E nonceOk \in BOOLEAN :
        IF nonceOk
        THEN \E n \in Nonces, ir \in InteractResponses :
                Serve(b, LoginHandler(b, garbled, v, randOk, n, TRUE, ir))
        ELSE Serve(b, LoginHandler(b, garbled, v, randOk, "", FALSE, NoInteractResponse))

Login(b) ==
    /\ running
    /\ \E garbled \in BOOLEAN :
          IF NeedsPKCE(GetSession(b, garbled))
          THEN \E randOk \in BOOLEAN :
                  IF randOk
                  THEN \E v \in CodeVerifiers : LoginRest(b, garbled, v, TRUE)
                  ELSE Serve(b, LoginHandler(b, garbled, "", FALSE, "", TRUE,
                                             NoInteractResponse))
          ELSE LoginRest(b, garbled, "", TRUE)

(***************************************************************************)
(* LoginCallbackHandler (GET /login/callback)                              *)
(***************************************************************************)
MsgState == "The state was not as expected"

MsgCode == "The interaction_code was not returned or is not accessible"

MsgPKCE == "Could not get PKCE Data from session"

FailureMessages == {MsgState, MsgCode, MsgPKCE, DecodeError}

\* line 262
StateMatches_unchecked(q) == TRUE

StateMatches(q) == QGet(q, "state") = state

\* line 267
HasInteractionCode(q) == QGet(q, "interaction_code") # ""

\* lines 277-282
PKCEMissing_unchecked(s) == FALSE

PKCEMissing(s) ==
    \/ IsNilOrEmpty(s, "pkce_code_verifier")
    \/ IsNilOrEmpty(s, "pkce_code_challenge")
    \/ IsNilOrEmpty(s, "pkce_code_challenge_method")

\* lines 286-293: the query string of the POST to /oauth2/v1/token
TokenRequest(query, s) ==
    LET q0 == QDel(query, "state")
        q1 == QAdd(q0, "grant_type", "interaction_code")
        q2 == QSet(q1, "interaction_code", QGet(query, "interaction_code"))
        q3 == QAdd(q2, "client_id", ClientID)
        q4 == QAdd(q3, "client_secret", ClientSecret)
    IN  QAdd(q4, "code_verifier", s["pkce_code_verifier"])

\* lines 323-324
StoreTokens_idOnly(s, exchange) == SetValue(s, "id_token", exchange.id_token)

StoreTokens(s, exchange) ==
    SetValue(SetValue(s, "id_token", exchange.id_token),
             "access_token", exchange.access_token)

LoginCallbackHandler(b, garbled, query, tr, saveOk) ==
    LET base == [NoLast EXCEPT !.handler = "LoginCallback", !.browser = b,
                               !.garbled = garbled, !.before = cookie[b],
                               !.query = query]
        s0   == GetSession(b, garbled)
        w0   == IF garbled THEN HttpError(NewResponse, DecodeError, 500) ELSE NewResponse
        sent == [base EXCEPT !.tokenReqSent = TRUE, !.tokenReq = TokenRequest(query, s0),
                             !.tokenResp = tr]
        ok   == verifyToken(tr.id_token)
        chk  == [sent EXCEPT !.verifyCalled = TRUE, !.verifyOk = ok]
        s1   == StoreTokens(s0, tr)
        w1   == Finish(Redirect(SaveSession(w0, s1), "GET", "/"))
    IN  IF ~StateMatches(query)
        THEN [base EXCEPT !.w = Finish(Fprintln(NewResponse, MsgState))]
        ELSE IF ~HasInteractionCode(query)
        THEN [base EXCEPT !.w = Finish(Fprintln(NewResponse, MsgCode))]
        ELSE IF PKCEMissing(s0)
        THEN [base EXCEPT !.w = Finish(Fprintln(w0, MsgPKCE))]
        ELSE IF "pkce_code_verifier" \notin DOMAIN s0
        THEN [base EXCEPT !.panicked = TRUE]
        ELSE IF tr.outcome # "json"
        THEN [sent EXCEPT !.exited = TRUE]
        ELSE IF ~ok
        THEN [chk EXCEPT !.exited = TRUE]
        ELSE IF ~saveOk
        THEN [chk EXCEPT !.saveFailed = TRUE, !.exited = TRUE]
        ELSE [chk EXCEPT !.w = w1]

\* the request gets as far as the token endpoint
ReachesExchange(b, garbled, query) ==
    StateMatches(query) /\ HasInteractionCode(query) /\ ~PKCEMissing(GetSession(b, garbled))

Callback(b, garbled, query, tr, saveOk) ==
    Serve(b, [pkce |-> pkce, last |-> LoginCallbackHandler(b, garbled, query, tr, saveOk)])

LoginCallback(b) ==
    /\ running
    /\ \E query \in Queries :
          IF StateMatches(query) /\ HasInteractionCode(query)
          THEN \E garbled \in BOOLEAN :
                  IF ReachesExchange(b, garbled, query)
                  THEN \E tr \in TokenResponses :
                          IF tr.outcome = "json" /\ verifyToken(tr.id_token)
                          THEN \E saveOk \in BOOLEAN :
                                  Callback(b, garbled, query, tr, saveOk)
                          ELSE Callback(b, garbled, query, tr, TRUE)
                  ELSE Callback(b, garbled, query, NoTokenResponse, TRUE)
          ELSE Callback(b, FALSE, query, NoTokenResponse, TRUE)

(***************************************************************************)
(* LogoutHandler (POST /logout)                                            *)
(***************************************************************************)
LogoutHandler_clearsAll(b, garbled) ==
    LET w0 == IF garbled THEN HttpError(NewResponse, DecodeError, 500) ELSE NewResponse
        w1 == Finish(Redirect(SaveSession(w0, EmptySession), "POST", "/"))
    IN  [NoLast EXCEPT !.handler = "Logout", !.browser = b, !.garbled = garbled,
                       !.before = cookie[b], !.w = w1]

LogoutHandler_idOnly(b, garbled) ==
    LET s0 == GetSession(b, garbled)
        w0 == IF garbled THEN HttpError(NewResponse, DecodeError, 500) ELSE NewResponse
        w1 == Finish(Redirect(SaveSession(w0, DeleteValue(s0, "id_token")), "POST", "/"))
    IN  [NoLast EXCEPT !.handler = "Logout", !.browser = b, !.garbled = garbled,
                       !.before = cookie[b], !.w = w1]

LogoutHandler(b, garbled) ==
    LET s0 == GetSession(b, garbled)
        w0 == IF garbled THEN HttpError(NewResponse, DecodeError, 500) ELSE NewResponse
        s1 == DeleteValue(DeleteValue(s0, "id_token"), "access_token")
        w1 == Finish(Redirect(SaveSession(w0, s1), "POST", "/"))
    IN  [NoLast EXCEPT !.handler = "Logout", !.browser = b, !.garbled = garbled,
                       !.before = cookie[b], !.w = w1]

Logout(b) ==
    /\ running
    /\ \E garbled \in BOOLEAN :
          Serve(b, [pkce |-> pkce, last |-> LogoutHandler(b, garbled)])

(***************************************************************************)
(* getProfileData, HomeHandler (GET /) and ProfileHandler (GET /profile)   *)
(***************************************************************************)
\* line 367: no access token to send
NoAccessToken(s, getErr) == getErr \/ IsNilOrEmpty(s, "access_token")

\* lines 362-385: sent says whether the user-info endpoint was asked, panic
\* that resp was nil when resp.Body was read, m is the returned map
getProfileData(s, getErr, ur) ==
    IF NoAccessToken(s, getErr)
    THEN [sent |-> FALSE, bearer |-> "", panic |-> FALSE, m |-> NoProfile]
    ELSE [sent |-> TRUE, bearer |-> s["access_token"],
          panic |-> ur.outcome = "transport_error",
          m |-> IF ur.outcome = "json" THEN ur.attrs ELSE NoProfile]

PageHandler(name, template, b, garbled, ur) ==
    LET s0   == GetSession(b, garbled)
        pd   == getProfileData(s0, garbled, ur)
        base == [NoLast EXCEPT !.handler = name, !.browser = b, !.garbled = garbled,
                               !.before = cookie[b], !.userinfoSent = pd.sent,
                               !.userinfoBearer = pd.bearer, !.userinfoResp = ur]
        data == [NoRender EXCEPT !.shown = TRUE, !.Profile = pd.m,
                                 !.IsAuthenticated = isAuthenticated(s0, garbled)]
    IN  IF pd.panic THEN [base EXCEPT !.panicked = TRUE]
        ELSE [base EXCEPT !.render = data, !.w = Finish(Write(NewResponse, template))]

Page(name, template, b) ==
    \E garbled \in BOOLEAN :
        IF NoAccessToken(GetSession(b, garbled), garbled)
        THEN Serve(b, [pkce |-> pkce,
                       last |-> PageHandler(name, template, b, garbled, NoUserInfoResponse)])
        ELSE \E ur \in UserInfoResponses :
                Serve(b, [pkce |-> pkce,
                          last |-> PageHandler(name, template, b, garbled, ur)])

Home(b) == running /\ Page("Home", "home.gohtml", b)

Profile(b) == running /\ Page("Profile", "profile.gohtml", b)

Next ==
    \E b \in Browsers :
        \/ Home(b)
        \/ Login(b)
        \/ LoginCallback(b)
        \/ Profile(b)
        \/ Logout(b)

Spec == Init /\ [][Next]_vars

(***************************************************************************)
(* Properties                                                              *)
(***************************************************************************)
\* the session the last request read, and the browser's cookie after it
SessionRead == IF last.garbled THEN EmptySession ELSE last.before

CookieNow == cookie[last.browser]

IsCallback == last.handler = "LoginCallback"

Range(seq) == {seq[i] : i \in 1..Len(seq)}

Redirected == last.w.status = 302 /\ last.w.sentLocation = "/"

\* the response is a delivered plain failure message and not a redirect
FailureShown ==
    /\ last.w.status \notin {0, 302}
    /\ last.w.sentLocation = ""
    /\ last.w.body # <<>>
    /\ Range(last.w.body) \subseteq FailureMessages

TokenKeys == {"id_token", "access_token"}

\* the cookie holds no non-empty token that the session did not hold before
NoTokenGained ==
    \A k \in TokenKeys :
        IsNilOrEmpty(CookieNow, k) \/ (k \in DOMAIN last.before /\ CookieNow[k] = last.before[k])

\* C1: when the token verifier rejects the id_token of the token response,
\* no token is written to the session, and a session that was
\* unauthenticated before the callback is unauthenticated after it.
C1_RejectedTokenNotStored ==
    (IsCallback /\ last.verifyCalled /\ ~VerifyIdToken(last.tokenResp.id_token))
        => /\ CookieNow = last.before
           /\ ~last.w.sentCookieSet
           /\ (~isAuthenticated(last.before, FALSE) => ~isAuthenticated(CookieNow, FALSE))

C1_Witness ==
    /\ IsCallback /\ last.verifyCalled
    /\ last.tokenResp.id_token = "IDT_badsig"
    /\ last.tokenResp.access_token = "AT1"
    /\ ~isAuthenticated(last.before, FALSE)

\* C2: a callback whose state parameter differs from the issued state writes
\* the rejection message, sends nothing to the token endpoint, does not
\* redirect, and leaves the session (tokens and PKCE fields) unchanged.
C2_StateMismatchRejected ==
    (IsCallback /\ QGet(last.query, "state") # state)
        => /\ last.w.status = 200
           /\ last.w.body = <<MsgState>>
           /\ ~last.tokenReqSent
           /\ ~Redirected /\ last.w.sentLocation = ""
           /\ CookieNow = last.before
           /\ (~isAuthenticated(last.before, FALSE) => ~isAuthenticated(CookieNow, FALSE))

C2_Witness ==
    /\ IsCallback /\ ~last.garbled
    /\ QGet(last.query, "state") = "WrongState"
    /\ QGet(last.query, "interaction_code") = "abc123"
    /\ ~PKCEMissing(last.before)

\* C3: a callback whose session lacks a stored PKCE field is rejected whatever
\* the query parameters are: a failure message is the response, nothing is
\* sent to the token endpoint, there is no redirect, and the session gains
\* no id_token or access_token.
C3_MissingPKCERejected ==
    (IsCallback /\ (IsNilOrEmpty(SessionRead, "pkce_code_verifier")
                    \/ IsNilOrEmpty(SessionRead, "pkce_code_challenge")
                    \/ IsNilOrEmpty(SessionRead, "pkce_code_challenge_method")))
        => /\ FailureShown
           /\ ~last.tokenReqSent
           /\ ~Redirected
           /\ NoTokenGained
           /\ CookieNow = last.before

C3_Witness ==
    /\ IsCallback /\ ~last.garbled
    /\ last.before = EmptySession
    /\ QGet(last.query, "state") = state
    /\ QGet(last.query, "interaction_code") = "abc123"
    /\ "code_verifier" \in DOMAIN last.query
    /\ last.w.body = <<MsgPKCE>>

\* C4: a token response with a non-empty error field never makes the session
\* gain a non-empty id_token or access_token, whatever else it carries.
C4_ErrorResponseStoresNothing ==
    (IsCallback /\ last.tokenReqSent /\ last.tokenResp.outcome = "json"
                /\ last.tokenResp.error # "")
        => NoTokenGained

\* C5: a failure during one callback request (transport failure, unreadable
\* or malformed response, error response, verification failure, session save
\* failure) leaves the process running.
C5_CallbackFailureNotFatal ==
    (IsCallback /\ last.tokenReqSent
                /\ (\/ last.tokenResp.outcome # "json"
                    \/ last.tokenResp.error # ""
                    \/ ~VerifyIdToken(last.tokenResp.id_token)
                    \/ last.saveFailed))
        => running

\* the success outcome of a callback: tokens stored and a redirect to /
CallbackSucceeded ==
    /\ Redirected
    /\ last.w.sentCookieSet
    /\ ~IsNilOrEmpty(CookieNow, "id_token")
    /\ CookieNow["id_token"] = last.tokenResp.id_token
    /\ "access_token" \in DOMAIN CookieNow
    /\ CookieNow["access_token"] = last.tokenResp.access_token

\* C6: every callback ends either in success (tokens stored, redirect to /)
\* or in a failure message without a redirect, and never in both or neither.
C6_CallbackSuccessOrMessage ==
    IsCallback => /\ (CallbackSucceeded \/ FailureShown)
                  /\ ~(CallbackSucceeded /\ FailureShown)
                  /\ (Redirected => CallbackSucceeded)

\* the success path of a callback: the browser's own session with stored PKCE
\* material, the issued state, an interaction code, and a token response
\* with an access_token and an id_token that the verifier accepts
SuccessPathRequest ==
    /\ IsCallback /\ ~last.garbled
    /\ QGet(last.query, "state") = state
    /\ QGet(last.query, "interaction_code") # ""
    /\ ~PKCEMissing(last.before)
    /\ last.tokenResp.outcome = "json"
    /\ last.tokenResp.access_token # ""
    /\ VerifyIdToken(last.tokenResp.id_token)

SuccessPathResult ==
    /\ last.tokenReqSent
    /\ "code_verifier" \in DOMAIN last.tokenReq
    /\ last.before["pkce_code_verifier"] \in Range(last.tokenReq["code_verifier"])
    /\ QGet(last.tokenReq, "interaction_code") = QGet(last.query, "interaction_code")
    /\ DOMAIN CookieNow = DOMAIN last.before \cup TokenKeys
    /\ CookieNow["id_token"] = last.tokenResp.id_token
    /\ CookieNow["access_token"] = last.tokenResp.access_token
    /\ isAuthenticated(CookieNow, FALSE)
    /\ Redirected
    /\ running

\* GET /profile of a session with an access token, answered by the user-info
\* endpoint with a mapping, renders that mapping
ProfileRendersUserInfo ==
    (last.handler = "Profile" /\ ~last.garbled
        /\ ~IsNilOrEmpty(last.before, "access_token")
        /\ last.userinfoResp.outcome = "json")
        => /\ last.userinfoSent
           /\ last.userinfoBearer = last.before["access_token"]
           /\ last.render.shown
           /\ last.render.Profile = last.userinfoResp.attrs
           /\ last.w.status = 200

C8_TokensBothOrNeither ==
    \A b \in Browsers :
        IsNilOrEmpty(cookie[b], "id_token") <=> IsNilOrEmpty(cookie[b], "access_token")

\* C9: after a callback whose token exchange succeeded the session holds no
\* PKCE material any more.
C9_PKCEClearedAfterExchange ==
    (IsCallback /\ CallbackSucceeded)
        => /\ "pkce_code_verifier" \notin DOMAIN CookieNow
           /\ "pkce_code_challenge" \notin DOMAIN CookieNow
           /\ "pkce_code_challenge_method" \notin DOMAIN CookieNow

PKCEKeys == {"pkce_code_verifier", "pkce_code_challenge", "pkce_code_challenge_method"}

\* C10: GET /login on a session that holds PKCE material leaves the three
\* stored values unchanged and sends and renders the stored challenge; on a
\* session without it, it stores a newly generated pair.
C10_LoginCreatesPKCEOnlyIfAbsent ==
    (last.handler = "Login" /\ ~last.garbled)
        => IF ~PKCEMissing(last.before)
           THEN /\ \A k \in PKCEKeys : k \in DOMAIN CookieNow /\ CookieNow[k] = last.before[k]
                /\ last.interactSent
                      => last.interactChallenge = last.before["pkce_code_challenge"]
                /\ last.render.shown
                      => last.render.CodeChallenge = last.before["pkce_code_challenge"]
           ELSE last.render.shown
                   => /\ ~PKCEMissing(CookieNow)
                      /\ CookieNow["pkce_code_challenge"]
                            = CodeChallengeOf(CookieNow["pkce_code_verifier"])

\* C11: POST /logout on any session removes id_token and access_token (the
\* session is no longer authenticated), leaves the stored PKCE verifier,
\* challenge and method as they were, and redirects to /.
C11_LogoutClearsOnlyTokens ==
    (last.handler = "Logout" /\ ~last.garbled)
        => /\ "id_token" \notin DOMAIN CookieNow
           /\ "access_token" \notin DOMAIN CookieNow
           /\ ~isAuthenticated(CookieNow, FALSE)
           /\ DOMAIN CookieNow = DOMAIN last.before \ TokenKeys
           /\ \A k \in DOMAIN CookieNow : CookieNow[k] = last.before[k]
           /\ Redirected
           /\ running

C11_Witness ==
    /\ last.handler = "Logout" /\ ~last.garbled
    /\ isAuthenticated(last.before, FALSE)
    /\ ~IsNilOrEmpty(last.before, "access_token")
    /\ ~PKCEMissing(last.before)
    /\ ~PKCEMissing(CookieNow)

IsPage == last.handler \in {"Home", "Profile"}

\* the user-info call of the last page request failed
UserInfoFailed ==
    \/ ~last.userinfoSent
    \/ last.userinfoResp.outcome \in {"transport_error", "malformed_json"}
    \/ last.userinfoResp.status # 200

\* C12: on every failure of the user-info call (no access token, non-2xx
\* response of any body, no response, unparsable body) getProfileData
\* returns an empty mapping without panicking and the page is rendered.
C12_ProfileFailsOpenToEmpty ==
    (IsPage /\ UserInfoFailed)
        => /\ ~last.panicked
           /\ last.render.shown
           /\ last.render.Profile = NoProfile

\* C13: whenever a session is not authenticated (no id_token or an empty
\* one), as it is right after a logout, it holds no access token either, and
\* a profile fetch on it returns an empty mapping without asking the
\* user-info endpoint.
C13_UnauthenticatedProfileEmpty ==
    /\ \A b \in Browsers :
          ~isAuthenticated(cookie[b], FALSE) => IsNilOrEmpty(cookie[b], "access_token")
    /\ (IsPage /\ ~isAuthenticated(SessionRead, last.garbled))
          => /\ ~last.userinfoSent
             /\ ~last.panicked
             /\ last.render.shown
             /\ ~last.render.IsAuthenticated
             /\ last.render.Profile = NoProfile

C13_Witness ==
    /\ last.handler = "Profile" /\ ~last.garbled
    /\ ~isAuthenticated(last.before, FALSE)
    /\ ~PKCEMissing(last.before)
    /\ last.render.shown /\ last.render.Profile = NoProfile

\* the interaction-handle request of the last /login request failed
InteractFailed ==
    /\ last.handler = "Login" /\ last.interactSent
    /\ \/ last.interactResp.outcome \in {"transport_error", "read_error", "malformed_json"}
       \/ last.interactResp.handle = ""

\* C14: on every failure of the interaction-handle request (network failure,
\* non-2xx response, unreadable or malformed body) the login page is still
\* rendered with an empty interaction handle and the process keeps running.
C14_LoginRendersWithoutHandle ==
    InteractFailed
        => /\ running
           /\ ~last.exited /\ ~last.panicked
           /\ last.render.shown
           /\ last.render.InteractionHandle = ""
           /\ last.w.status # 0

\* C15: the PKCE material createPKCEData produces has the challenge
\* base64url-no-pad(SHA-256(verifier)) and the method S256, and its code
\* verifier string is between 43 and 128 characters long.
C15_PKCEMaterialWellFormed ==
    (last.handler = "Login" /\ ~pkce.isNil)
        => /\ pkce.CodeChallenge = "b64url(sha256(" \o pkce.CodeVerifier \o "))"
           /\ pkce.CodeChallengeMethod = "S256"
           /\ pkce.CodeVerifier \in CodeVerifiers
           /\ last.verifierLen >= 43 /\ last.verifierLen <= 128

C15_Witness ==
    /\ last.handler = "Login" /\ ~pkce.isNil
    /\ pkce.CodeVerifier = "verifierB"
    /\ last.verifierLen = 115
    /\ ~PKCEMissing(CookieNow)
    /\ CookieNow["pkce_code_verifier"] = "verifierB"

\* a required setting that neither the config file nor the environment gives
MissingSettings ==
    {k \in Settings :
        /\ boot.env[k] = ""
        /\ boot.file.status # "ok" \/ boot.file.values[k] = ""}

\* C16: when a required setting is missing from both the config file and the
\* environment, startup fails and the process never serves requests.
C16_MissingSettingFailsStartup ==
    (boot.phase # "init" /\ MissingSettings # {})
        => /\ boot.phase = "exited"
           /\ ~running

(***************************************************************************)
(* Concurrent GET /login requests.  net/http runs every request in its own *)
(* goroutine, and LoginHandler keeps the PKCE data in the package variable *)
(* pkce, so the handler is stepped here one access to pkce at a time       *)
(* (lines 197-254, on the path where rand.Read, the interaction endpoint   *)
(* and the template succeed; the failing paths are those of LoginHandler). *)
(***************************************************************************)
AtPC(r, pc) == running /\ reqs[r].pc = pc

Goto(r, pc) == [reqs[r] EXCEPT !.pc = pc]

\* lines 197-201: the session of the request's cookie, then the branch
LoginGet(r) ==
    /\ AtPC(r, "idle")
    /\ \E b \in Browsers :
          reqs' = [reqs EXCEPT ![r] =
                      [IdleRequest EXCEPT !.browser = b, !.session = cookie[b],
                                          !.pc = IF NeedsPKCE(cookie[b])
                                                 THEN "create" ELSE "reuse"]]
    /\ UNCHANGED <<running, cookie, pkce, last, boot>>

\* line 202: pkce, err = createPKCEData(); lines 211-215: the branch of a
\* session that has "pkceData" copies the stored values into *pkce
LoginCreate(r) ==
    /\ \/ /\ AtPC(r, "create")
          /\ \E v \in CodeVerifiers : pkce' = createPKCEData(v)
          /\ reqs' = [reqs EXCEPT ![r] = Goto(r, "verifier")]
       \/ /\ AtPC(r, "reuse")
          /\ LET reuse == ReusePKCE(pkce, reqs[r].session)
             IN  /\ pkce' = reuse.pkce
                 /\ reqs' = [reqs EXCEPT ![r] =
                                Goto(r, IF reuse.panic THEN "done" ELSE "interact")]
    /\ UNCHANGED <<running, cookie, last, boot>>

\* lines 207-210, one statement at a time
LoginStore(r) ==
    /\ \/ /\ AtPC(r, "verifier")
          /\ reqs' = [reqs EXCEPT ![r] =
                [Goto(r, "challenge") EXCEPT !.session =
                    SetValue(@, "pkce_code_verifier", pkce.CodeVerifier)]]
       \/ /\ AtPC(r, "challenge")
          /\ reqs' = [reqs EXCEPT ![r] =
                [Goto(r, "method") EXCEPT !.session =
                    SetValue(@, "pkce_code_challenge", pkce.CodeChallenge)]]
       \/ /\ AtPC(r, "method")
          /\ LET s1 == SetValue(reqs[r].session, "pkce_code_challenge_method",
                                pkce.CodeChallengeMethod)
             IN  reqs' = [reqs EXCEPT ![r] =
                    [Goto(r, "interact") EXCEPT !.session = s1,
                                                !.w = SaveSession(reqs[r].w, s1)]]
    /\ UNCHANGED <<running, cookie, pkce, last, boot>>

\* line 232: getInteractionHandle(pkce.CodeChallenge)
LoginInteract(r) ==
    /\ AtPC(r, "interact")
    /\ reqs' = [reqs EXCEPT ![r] =
                  [Goto(r, "render") EXCEPT !.sentChallenge = pkce.CodeChallenge]]
    /\ UNCHANGED <<running, cookie, pkce, last, boot>>

\* lines 244-258: the template reads data.Pkce, the pointer pkce; the response
\* with the session cookie goes to the browser
LoginRender(r) ==
    /\ AtPC(r, "render")
    /\ LET w1 == Finish(Write(reqs[r].w, "login.gohtml"))
       IN  /\ reqs' = [reqs EXCEPT ![r] =
                  [Goto(r, "done") EXCEPT !.renderedChallenge = pkce.CodeChallenge,
                                          !.w = w1]]
           /\ cookie' = [cookie EXCEPT ![reqs[r].browser] = CookieAfter(reqs[r].browser, w1)]
    /\ UNCHANGED <<running, pkce, last, boot>>

(***************************************************************************)
(* The token endpoint of a provider that enforces PKCE (RFC 7636): the     *)
(* interaction code was issued for the challenge codeFor, and the provider *)
(* returns an id_token that verifies only to a request whose single        *)
(* code_verifier hashes to that challenge.                                 *)
(***************************************************************************)
PKCEVerified(req, codeFor) ==
    /\ "code_verifier" \in DOMAIN req
    /\ Len(req["code_verifier"]) = 1
    /\ CodeChallengeOf(req["code_verifier"][1]) = codeFor

ProviderResponses(req, codeFor) ==
    LET rejections == {[NoTokenResponse EXCEPT !.outcome = "transport_error"],
                       [NoTokenResponse EXCEPT !.outcome = "json", !.status = 400,
                                               !.error = "invalid_grant"],
                       [NoTokenResponse EXCEPT !.outcome = "json", !.status = 400,
                                               !.error = "invalid_grant",
                                               !.id_token = "IDT_badsig",
                                               !.access_token = "AT1"]}
        grant == [NoTokenResponse EXCEPT !.outcome = "json", !.status = 200,
                                         !.id_token = "IDT1", !.access_token = "AT1"]
    IN  IF PKCEVerified(req, codeFor) THEN rejections \cup {grant} ELSE rejections

\* the callback that the widget's redirect makes, with or without added
\* parameters
RedirectQueries ==
    {Merge(QSet(QSet(NoValues, "state", state), "interaction_code", "abc123"), e) :
        e \in ExtraParams}

\* GET /login/callback with an interaction code issued for a challenge that
\* an earlier /login sent to the interaction endpoint
CallbackOfCode(b) ==
    /\ running
    /\ ~PKCEMissing(cookie[b])
    /\ \E query \in RedirectQueries, v \in CodeVerifiers :
          \E tr \in ProviderResponses(TokenRequest(query, cookie[b]), CodeChallengeOf(v)) :
              Serve(b, [pkce |-> pkce,
                        last |-> [LoginCallbackHandler(b, FALSE, query, tr, TRUE)
                                     EXCEPT !.codeFor = CodeChallengeOf(v)]])

NextConcurrent ==
    \/ \E r \in Requests :
          \/ LoginGet(r)
          \/ LoginCreate(r)
          \/ LoginStore(r)
          \/ LoginInteract(r)
          \/ LoginRender(r)
    \/ \E b \in Browsers : CallbackOfCode(b)

SpecConcurrent == Init /\ [][NextConcurrent]_vars

\* C17: under every interleaving of concurrent GET /login requests, the
\* verifier and challenge a request stores in its session are one generated
\* pair, and the challenge it sends to the interaction endpoint and renders
\* is the challenge of the verifier it stored.
C17_PKCENotSharedAcrossRequests ==
    \A r \in Requests :
        reqs[r].pc = "done"
            => LET s == reqs[r].session
               IN  /\ ~PKCEMissing(s)
                   /\ s["pkce_code_challenge"] = CodeChallengeOf(s["pkce_code_verifier"])
                   /\ reqs[r].sentChallenge = CodeChallengeOf(s["pkce_code_verifier"])
                   /\ reqs[r].renderedChallenge = CodeChallengeOf(s["pkce_code_verifier"])

\* the interaction code of the last callback was issued for a challenge that
\* is not the challenge of the verifier stored in the session
PKCEMismatch ==
    /\ IsCallback /\ last.codeFor # ""
    /\ ~PKCEMissing(last.before)
    /\ last.codeFor # "b64url(sha256(" \o last.before["pkce_code_verifier"] \o "))"

C19_TokenRequestExactParams ==
    (IsCallback /\ last.tokenReqSent)
        => LET q == last.tokenReq
           IN  /\ "state" \notin DOMAIN q
               /\ {"grant_type", "interaction_code", "client_id", "client_secret",
                   "code_verifier"} \subseteq DOMAIN q
               /\ q["grant_type"] = <<"interaction_code">>
               /\ q["interaction_code"] = <<QGet(last.query, "interaction_code")>>
               /\ q["client_id"] = <<ClientID>>
               /\ q["client_secret"] = <<ClientSecret>>
               /\ q["code_verifier"] = <<last.before["pkce_code_verifier"]>>

\* the handler answered once: one write to the body, and no header set after
\* the response was committed
SingleResponse ==
    /\ Len(last.w.body) <= 1
    /\ last.w.hdrLocation = last.w.sentLocation
    /\ last.w.hdrCookieSet = last.w.sentCookieSet

\* the parts of C20 about the session that an undecodable cookie yields
C20_DecodeFailureIsEmptySession ==
    last.garbled
        => /\ ~isAuthenticated(SessionRead, last.garbled)
           /\ last.render.shown => ~last.render.IsAuthenticated
           /\ IsPage => ~last.userinfoSent /\ last.render.Profile = NoProfile
           /\ IsCallback => ~last.tokenReqSent /\ NoTokenGained
           /\ (last.exited \/ last.panicked) => last.handler = "Login"

\* C20: a request whose session cookie cannot be decoded is served as one
\* with an empty, unauthenticated session and does not end the process:
\* isAuthenticated is false, the profile is empty, the callback is rejected
\* without a token exchange, and the handler produces a single response.
C20_DecodeFailureSingleResponse ==
    last.garbled
        => /\ C20_DecodeFailureIsEmptySession
           /\ SingleResponse

====
